---- MODULE Spec2Model ----
(***************************************************************************)
(* A model of the BookBrainz site helpers: the server-side utilities       *)
(* (model lookup by type, identifier-type filtering, BBID validation,      *)
(* page titles, editor edit counts, table truncation) and the name-section *)
(* action creators of the entity editor.                                   *)
(*                                                                         *)
(* Each group of helpers is a component with variables of its own and a    *)
(* specification of its own (SpecLookup, SpecFilter, ...).  Spec is their  *)
(* union: it starts in one component and runs that component.              *)
(***************************************************************************)
EXTENDS Integers, Sequences, FiniteSets, TLC

VARIABLES
    \* model lookup by type
    orm, entityType, importType, entityOutcome, importOutcome,
    \* identifier-type filter
    identifierTypes, filterEntity, filterResult,
    \* BBID validation
    bbid, bbidResult,
    \* page titles
    titleEntity, titleForUnnamed, templateForNamed, titleResult, templateCalls,
    \* editor edit counts
    editCount, initialEditCount, incrementCalls,
    \* table truncation
    tables, issued, inFlight, succeeded, failed, truncatePromise,
    \* name-section actions of the entity editor
    searchIndex, thunkRuns, debounced, eventLog

varsLookup == <<orm, entityType, importType, entityOutcome, importOutcome>>

varsFilter == <<identifierTypes, filterEntity, filterResult>>

varsBBID == <<bbid, bbidResult>>

varsTitle ==
    <<titleEntity, titleForUnnamed, templateForNamed, titleResult, templateCalls>>

varsEdit == <<editCount, initialEditCount, incrementCalls>>

varsTruncate == <<tables, issued, inFlight, succeeded, failed, truncatePromise>>

varsThunk == <<searchIndex, thunkRuns, debounced, eventLog>>

vars ==
    <<varsLookup, varsFilter, varsBBID, varsTitle, varsEdit, varsTruncate, varsThunk>>

\* What an action of one component leaves alone: the other components.
exceptLookup == <<varsFilter, varsBBID, varsTitle, varsEdit, varsTruncate, varsThunk>>

exceptFilter == <<varsLookup, varsBBID, varsTitle, varsEdit, varsTruncate, varsThunk>>

exceptBBID == <<varsLookup, varsFilter, varsTitle, varsEdit, varsTruncate, varsThunk>>

exceptTitle == <<varsLookup, varsFilter, varsBBID, varsEdit, varsTruncate, varsThunk>>

exceptEdit == <<varsLookup, varsFilter, varsBBID, varsTitle, varsTruncate, varsThunk>>

exceptTruncate == <<varsLookup, varsFilter, varsBBID, varsTitle, varsEdit, varsThunk>>

exceptThunk == <<varsLookup, varsFilter, varsBBID, varsTitle, varsEdit, varsTruncate>>

\* ------------------------------------------------------------------------
\* JavaScript values

\* The value of a missing property.
Undefined == [t |-> "undefined"]

\* A function object (a Bookshelf model constructor, a built-in).
Handle(n) == [t |-> "function", name |-> n]

\* A function that has not been called yet / a promise that is not settled.
NoOutcome == [kind |-> "none"]
\* The outcome of a component that is not running.
Idle == [kind |-> "idle"]
Return(v) == [kind |-> "return", value |-> v]
Throw(e) == [kind |-> "throw", error |-> e]

\* new Error(message): the built-in error class, its name is "Error".
Error(message) == [name |-> "Error", message |-> message]

\* ToBoolean, on the values the model holds.
Truthy(v) ==
    /\ v.t \notin {"undefined", "null"}
    /\ (v.t = "string" => v.v # "")

\* The own property names of Object.prototype that are functions.
ObjectPrototypeMethods ==
    {"constructor", "__defineGetter__", "__defineSetter__", "hasOwnProperty",
     "__lookupGetter__", "__lookupSetter__", "isPrototypeOf",
     "propertyIsEnumerable", "toString", "valueOf", "toLocaleString"}

\* What every object literal inherits from Object.prototype: its methods,
\* and the accessor __proto__, which yields the prototype itself.
ObjectPrototype ==
    [k \in ObjectPrototypeMethods \cup {"__proto__"} |->
        IF k = "__proto__" THEN [t |-> "object", name |-> "Object.prototype"]
        ELSE Handle(IF k = "constructor" THEN "Object" ELSE "Object.prototype." \o k)]

\* obj[key]: the object's own property, else the inherited one, else
\* undefined.
Get(obj, key) ==
    IF key \in DOMAIN obj THEN obj[key]
    ELSE IF key \in DOMAIN ObjectPrototype THEN ObjectPrototype[key]
    ELSE Undefined

\* ------------------------------------------------------------------------
\* Model lookup by type

EntityModelNames == {"Creator", "Edition", "Publication", "Publisher", "Work"}

ImportModelNames ==
    {"CreatorImport", "EditionImport", "PublicationImport", "PublisherImport",
     "WorkImport"}

\* Models bookbrainz-data defines besides the entities and their imports.
OtherModelNames == {"Editor", "Revision"}

\* The type names the lookups are called with.
TypeNames ==
    EntityModelNames \cup ImportModelNames \cup
    {"Nonexistent", "", "creator"} \cup DOMAIN ObjectPrototype

\* The ORM handles: every entity model, every import model, and some of the
\* other models.
Orms ==
    { [n \in EntityModelNames \cup ImportModelNames \cup extra |-> Handle(n)] :
        extra \in SUBSET OtherModelNames }

getEntityModels(o) == [n \in EntityModelNames |-> Get(o, n)]

getImportModels(o) == [n \in ImportModelNames |-> Get(o, n)]

getEntityModelByTypeSameMessage(o, type) ==
    LET entityModels == getEntityModels(o)
    IN  IF ~Truthy(Get(entityModels, type))
        THEN Throw(Error("Unrecognized import type"))
        ELSE Return(Get(entityModels, type))

getEntityModelByType(o, type) ==
    LET entityModels == getEntityModels(o)
    IN  IF ~Truthy(Get(entityModels, type))
        THEN Throw(Error("Unrecognized entity type: '" \o type \o "'"))
        ELSE Return(Get(entityModels, type))

getImportModelByType(o, type) ==
    LET importModels == getImportModels(o)
    IN  IF ~Truthy(Get(importModels, type))
        THEN Throw(Error("Unrecognized import type"))
        ELSE Return(Get(importModels, type))

LookupIdle ==
    /\ orm = Undefined
    /\ entityType = ""
    /\ importType = ""
    /\ entityOutcome = NoOutcome
    /\ importOutcome = NoOutcome

LookupStart ==
    /\ orm \in Orms
    /\ entityType \in TypeNames
    /\ importType \in TypeNames
    /\ entityOutcome = NoOutcome
    /\ importOutcome = NoOutcome

CallGetEntityModelByType ==
    /\ orm # Undefined
    /\ entityOutcome = NoOutcome
    /\ entityOutcome' = getEntityModelByType(orm, entityType)
    /\ UNCHANGED <<orm, entityType, importType, importOutcome>>
    /\ UNCHANGED exceptLookup

CallGetImportModelByType ==
    /\ orm # Undefined
    /\ importOutcome = NoOutcome
    /\ importOutcome' = getImportModelByType(orm, importType)
    /\ UNCHANGED <<orm, entityType, importType, entityOutcome>>
    /\ UNCHANGED exceptLookup

NextLookup == CallGetEntityModelByType \/ CallGetImportModelByType


\* C1: with all ten models exposed, getEntityModelByType (resp.
\* getImportModelByType) returns the handle registered under the name when
\* the name is one of its five names, throws for every other name, and never
\* returns an absent value or a value that is not one of its five handles.
C1_LookupClosedSet ==
    /\ entityOutcome # NoOutcome =>
        /\ entityType \in EntityModelNames => entityOutcome = Return(orm[entityType])
        /\ entityType \notin EntityModelNames => entityOutcome.kind = "throw"
        /\ entityOutcome.kind = "return" =>
            entityOutcome.value \in {orm[n] : n \in EntityModelNames}
    /\ importOutcome # NoOutcome =>
        /\ importType \in ImportModelNames => importOutcome = Return(orm[importType])
        /\ importType \notin ImportModelNames => importOutcome.kind = "throw"
        /\ importOutcome.kind = "return" =>
            importOutcome.value \in {orm[n] : n \in ImportModelNames}

BothLookupsFailed ==
    /\ entityOutcome.kind = "throw"
    /\ importOutcome.kind = "throw"

\* C2 as stated: a miss in the entity registry and a miss in the import
\* registry are reported with two distinct error kinds,
\* UnrecognizedEntityType and UnrecognizedImportType.
C2_DistinctErrorKinds ==
    BothLookupsFailed =>
        /\ entityOutcome.error.name = "UnrecognizedEntityType"
        /\ importOutcome.error.name = "UnrecognizedImportType"
        /\ entityOutcome.error.name # importOutcome.error.name

\* C2 as amended: both misses are reported with the one built-in error kind,
\* Error; only the messages tell the registries apart.
C2_SameKindDistinctMessage ==
    BothLookupsFailed =>
        /\ entityOutcome.error.name = "Error"
        /\ importOutcome.error.name = "Error"
        /\ entityOutcome.error.message # importOutcome.error.message

C2_Witness ==
    /\ BothLookupsFailed
    /\ entityType = "Nonexistent"
    /\ importType = "Nonexistent"

\* ------------------------------------------------------------------------
\* Identifier-type filter

MaxTypes == 3
MaxTypeId == 2
MaxIdentifiers == 2

Null == [t |-> "null"]

FilterEntityTypes == {"Work", "Creator"}

SeqsUpTo(S, n) == UNION { [1..k -> S] : k \in 0..n }

IdentifierTypeRecords ==
    [id : 1..MaxTypeId, entityType : FilterEntityTypes]

\* An identifier of an entity: its type (of which the filter reads the id)
\* and its value.
Identifier(typeId) == [type |-> [id |-> typeId], value |-> "x"]

IdentifierSets ==
    { [t |-> "object", identifiers |-> [i \in DOMAIN ids |-> Identifier(ids[i])]] :
        ids \in SeqsUpTo(1..MaxTypeId, MaxIdentifiers) }

FilterEntities ==
    [type : FilterEntityTypes, identifierSet : {Undefined, Null} \cup IdentifierSets]

filterIdentifierTypesByEntityType(types, type) ==
    SelectSeq(types, LAMBDA ty : ty.entityType = type)

filterIdentifierTypesByEntityNoAttached(types, entity) ==
    filterIdentifierTypesByEntityType(types, entity.type)

filterIdentifierTypesByEntity(types, entity) ==
    IF ~Truthy(entity.identifierSet) \/ Len(entity.identifierSet.identifiers) < 1
    THEN filterIdentifierTypesByEntityType(types, entity.type)
    ELSE LET identifiers == entity.identifierSet.identifiers
             typesOnEntity == { identifiers[i].type.id : i \in DOMAIN identifiers }
         IN  SelectSeq(types,
                 LAMBDA ty : ty.entityType = entity.type \/ ty.id \in typesOnEntity)

NotFiltered == [kind |-> "none"]

FilterIdle ==
    /\ identifierTypes = <<>>
    /\ filterEntity = Undefined
    /\ filterResult = NotFiltered

FilterStart ==
    /\ identifierTypes \in SeqsUpTo(IdentifierTypeRecords, MaxTypes)
    /\ filterEntity \in FilterEntities
    /\ filterResult = NotFiltered

CallFilterIdentifierTypesByEntity ==
    /\ filterEntity # Undefined
    /\ filterResult = NotFiltered
    /\ filterResult' = Return(filterIdentifierTypesByEntity(identifierTypes, filterEntity))
    /\ UNCHANGED <<identifierTypes, filterEntity>>
    /\ UNCHANGED exceptFilter

NextFilter == CallFilterIdentifierTypesByEntity

\* The type ids of the identifiers attached to the entity.
AttachedTypeIds ==
    IF filterEntity.identifierSet \in {Undefined, Null} THEN {}
    ELSE { filterEntity.identifierSet.identifiers[i].type.id :
             i \in DOMAIN filterEntity.identifierSet.identifiers }

\* The positions of allTypes the filter is to keep.
KeptPositions ==
    { i \in DOMAIN identifierTypes :
        \/ identifierTypes[i].entityType = filterEntity.type
        \/ identifierTypes[i].id \in AttachedTypeIds }

\* C3: filterIdentifierTypesByEntity returns exactly the elements of
\* allTypes whose entityType is the entity's type or whose id is the type id
\* of an attached identifier, in the input order and each as often as the
\* input holds it; with nothing attached that is
\* filterIdentifierTypesByEntityType(allTypes, entity.type).
C3_FilterByEntity ==
    filterResult # NotFiltered =>
        LET result == filterResult.value
        IN  /\ Len(result) = Cardinality(KeptPositions)
            /\ \A k \in DOMAIN result :
                   \E i \in KeptPositions :
                       /\ Cardinality({ j \in KeptPositions : j <= i }) = k
                       /\ result[k] = identifierTypes[i]
            /\ AttachedTypeIds = {} =>
                   result = filterIdentifierTypesByEntityType(identifierTypes,
                                                              filterEntity.type)

\* The spec's example: a cross-type type kept through an attached
\* identifier, a matching type kept, an unrelated type dropped.
C3_Witness ==
    /\ filterResult # NotFiltered
    /\ Len(identifierTypes) = 3
    /\ \E i \in KeptPositions :
           /\ identifierTypes[i].entityType # filterEntity.type
           /\ identifierTypes[i].id \in AttachedTypeIds
    /\ \E i \in KeptPositions : identifierTypes[i].entityType = filterEntity.type
    /\ Len(filterResult.value) = 2

\* ------------------------------------------------------------------------
\* BBID validation.  A string is the sequence of its characters.

MaxPad == 1

Digits == {"0", "1", "2", "3", "4", "5", "6", "7", "8", "9"}

\* The character class [0-9a-f].
LowerHex == Digits \cup {"a", "b", "c", "d", "e", "f"}

\* A regular expression of this shape: an optional ^, classes each repeated
\* an exact number of times, an optional $.
bbidRegexNoEndAnchor ==
    [ start |-> TRUE,
      items |-> << [class |-> LowerHex, count |-> 8], [class |-> {"-"}, count |-> 1],
                   [class |-> LowerHex, count |-> 4], [class |-> {"-"}, count |-> 1],
                   [class |-> LowerHex, count |-> 4], [class |-> {"-"}, count |-> 1],
                   [class |-> LowerHex, count |-> 4], [class |-> {"-"}, count |-> 1],
                   [class |-> LowerHex, count |-> 12] >>,
      end |-> FALSE ]

\* /^[0-9a-f]{8}-[0-9a-f]{4}-[0-9a-f]{4}-[0-9a-f]{4}-[0-9a-f]{12}$/
_bbidRegex ==
    [ start |-> TRUE,
      items |-> << [class |-> LowerHex, count |-> 8], [class |-> {"-"}, count |-> 1],
                   [class |-> LowerHex, count |-> 4], [class |-> {"-"}, count |-> 1],
                   [class |-> LowerHex, count |-> 4], [class |-> {"-"}, count |-> 1],
                   [class |-> LowerHex, count |-> 4], [class |-> {"-"}, count |-> 1],
                   [class |-> LowerHex, count |-> 12] >>,
      end |-> TRUE ]

\* The position after items k.. of the expression matched at pos, or -1.
RECURSIVE MatchItems(_, _, _, _)
MatchItems(items, k, s, pos) ==
    IF k > Len(items) THEN pos
    ELSE LET last == pos + items[k].count - 1
         IN  IF last <= Len(s) /\ \A j \in pos..last : s[j] \in items[k].class
             THEN MatchItems(items, k + 1, s, last + 1)
             ELSE -1

\* RegExp.prototype.test on a string: a match starts at some position (the
\* first, under ^) and, under $, ends at the end of the input.
RegExpTest(re, s) ==
    \E start \in (IF re.start THEN {1} ELSE 1..(Len(s) + 1)) :
        LET e == MatchItems(re.items, 1, s, start)
        IN  e # -1 /\ (re.end => e = Len(s) + 1)

isValidBBID(s) == RegExpTest(_bbidRegex, s)

\* The spec's example BBID, 123e4567-e89b-12d3-a456-426614174000.
ExampleBBID ==
    << "1", "2", "3", "e", "4", "5", "6", "7", "-", "e", "8", "9", "b", "-",
       "1", "2", "d", "3", "-", "a", "4", "5", "6", "-", "4", "2", "6", "6",
       "1", "4", "1", "7", "4", "0", "0", "0" >>

\* Characters put in place of one of the example's.
ReplacementChars == {"0", "f", "g", "A", "F", "-", " "}

\* Characters put before and after.
PadChars == {"0", "-", "\n"}

ReplaceAt(s, i, c) == [s EXCEPT ![i] = c]

DeleteAt(s, i) == SubSeq(s, 1, i - 1) \o SubSeq(s, i + 1, Len(s))

\* The example, and the example with one character replaced or deleted, or
\* cut short.
EditedBBIDs ==
    {ExampleBBID}
    \cup { ReplaceAt(ExampleBBID, i, c) : i \in DOMAIN ExampleBBID, c \in ReplacementChars }
    \cup { DeleteAt(ExampleBBID, i) : i \in DOMAIN ExampleBBID }
    \cup { SubSeq(ExampleBBID, 1, n) : n \in 0..Len(ExampleBBID) }

BBIDInputs ==
    { pre \o e \o suf :
        pre \in SeqsUpTo(PadChars, MaxPad), e \in EditedBBIDs,
        suf \in SeqsUpTo(PadChars, MaxPad) }

BBIDIdle ==
    /\ bbid = <<>>
    /\ bbidResult = Idle

BBIDStart ==
    /\ bbid \in BBIDInputs
    /\ bbidResult = NoOutcome

CallIsValidBBID ==
    /\ bbidResult = NoOutcome
    /\ bbidResult' = Return(isValidBBID(bbid))
    /\ UNCHANGED bbid
    /\ UNCHANGED exceptBBID

NextBBID == CallIsValidBBID

\* C4: isValidBBID(s) is true exactly when s is 36 characters, dashes at
\* positions 9, 14, 19 and 24 and lowercase hexadecimal digits elsewhere; it
\* is false for every other string, and it returns (never throws).
C4_ValidBBID ==
    bbidResult \notin {Idle, NoOutcome} =>
        /\ bbidResult.kind = "return"
        /\ bbidResult.value \in BOOLEAN
        /\ bbidResult.value <=>
               /\ Len(bbid) = 36
               /\ \A i \in 1..36 :
                      IF i \in {9, 14, 19, 24} THEN bbid[i] = "-"
                      ELSE bbid[i] \in LowerHex

C4_Witness ==
    /\ bbidResult = Return(TRUE)
    /\ bbid = ExampleBBID

\* ------------------------------------------------------------------------
\* Page titles

Str(v) == [t |-> "string", v |-> v]

Object(fields) == [t |-> "object", fields |-> fields]

\* Array.prototype.join's string for an element: empty for undefined and
\* null.
JoinString(v) == IF v.t \in {"undefined", "null"} THEN "" ELSE v.v

\* The function template(strings, ...keys) returns, applied to values:
\* strings[0], then for each key its value and the next string, joined.
RECURSIVE JoinFrom(_, _, _)
JoinFrom(tmpl, values, i) ==
    IF i > Len(tmpl.keys) THEN ""
    ELSE JoinString(Get(values, tmpl.keys[i])) \o tmpl.strings[i + 1]
            \o JoinFrom(tmpl, values, i + 1)

ApplyTemplate(tmpl, values) == Str(tmpl.strings[1] \o JoinFrom(tmpl, values, 1))

\* template`Edit ${'name'}`, template`${'name'} (Creator)`, and a template
\* with no replacement field.
NameTemplates ==
    { [strings |-> <<"Edit ", "">>, keys |-> <<"name">>],
      [strings |-> <<"", " (Creator)">>, keys |-> <<"name">>],
      [strings |-> <<"Edit">>, keys |-> <<>>] }

FallbackTitles == {Str("Unnamed"), Str(""), Str("Add Creator")}

AliasNames == {Undefined, Null, Str(""), Str("Alice"), Str("0")}

DefaultAliases == {Undefined, Null} \cup { Object([name |-> n]) : n \in AliasNames }

TitleEntities ==
    {Undefined, Null} \cup { Object([defaultAlias |-> a]) : a \in DefaultAliases }

\* The title and the calls of templateForNamed made on the way.
createEntityPageTitleAnyAlias(entity, unnamed, tmpl) ==
    IF /\ Truthy(entity)
       /\ Truthy(Get(entity.fields, "defaultAlias"))
    THEN LET arg == [name |-> Get(Get(entity.fields, "defaultAlias").fields, "name")]
         IN  [title |-> ApplyTemplate(tmpl, arg), calls |-> <<arg>>]
    ELSE [title |-> unnamed, calls |-> <<>>]

createEntityPageTitle(entity, unnamed, tmpl) ==
    IF /\ Truthy(entity)
       /\ Truthy(Get(entity.fields, "defaultAlias"))
       /\ Truthy(Get(Get(entity.fields, "defaultAlias").fields, "name"))
    THEN LET arg == [name |-> Get(Get(entity.fields, "defaultAlias").fields, "name")]
         IN  [title |-> ApplyTemplate(tmpl, arg), calls |-> <<arg>>]
    ELSE [title |-> unnamed, calls |-> <<>>]

TitleIdle ==
    /\ titleEntity = Undefined
    /\ titleForUnnamed = Undefined
    /\ templateForNamed = Undefined
    /\ titleResult = Idle
    /\ templateCalls = <<>>

TitleStart ==
    /\ titleEntity \in TitleEntities
    /\ titleForUnnamed \in FallbackTitles
    /\ templateForNamed \in NameTemplates
    /\ titleResult = NoOutcome
    /\ templateCalls = <<>>

CallCreateEntityPageTitle ==
    /\ titleResult = NoOutcome
    /\ LET r == createEntityPageTitle(titleEntity, titleForUnnamed, templateForNamed)
       IN  /\ titleResult' = Return(r.title)
           /\ templateCalls' = templateCalls \o r.calls
    /\ UNCHANGED <<titleEntity, titleForUnnamed, templateForNamed>>
    /\ UNCHANGED exceptTitle

NextTitle == CallCreateEntityPageTitle

\* The entity is present and has a defaultAlias with a non-empty name.
EntityIsNamed ==
    /\ titleEntity.t = "object"
    /\ "defaultAlias" \in DOMAIN titleEntity.fields
    /\ titleEntity.fields.defaultAlias.t = "object"
    /\ "name" \in DOMAIN titleEntity.fields.defaultAlias.fields
    /\ titleEntity.fields.defaultAlias.fields.name.t = "string"
    /\ titleEntity.fields.defaultAlias.fields.name.v # ""

\* C5: createEntityPageTitle returns the fallback title, and never calls the
\* template, when the entity is absent, has no defaultAlias, or has one
\* whose name is absent or empty; otherwise it returns what the template
\* returns, called once, on {name: entity.defaultAlias.name}.
C5_PageTitle ==
    titleResult \notin {Idle, NoOutcome} =>
        IF EntityIsNamed
        THEN LET arg == [name |-> titleEntity.fields.defaultAlias.fields.name]
             IN  /\ templateCalls = <<arg>>
                 /\ titleResult = Return(ApplyTemplate(templateForNamed, arg))
        ELSE /\ templateCalls = <<>>
             /\ titleResult = Return(titleForUnnamed)

\* The spec's example: the entity named Alice under template`Edit ${'name'}`.
C5_Witness ==
    /\ EntityIsNamed
    /\ titleResult = Return(Str("Edit Alice"))
    /\ Len(templateCalls) = 1

\* ------------------------------------------------------------------------
\* Editor edit counts

MaxCalls == 2
MaxInitialCount == 1

EditorIds == {"e1", "e2"}

\* A call of incrementEditorEditCountById: the id, where the call is, and
\* the edit count of its Editor model (once fetched).
IncrementCall(id) == [id |-> id, pc |-> "fetching", editCount |-> 0]

EditIdle ==
    /\ editCount = Undefined
    /\ initialEditCount = Undefined
    /\ incrementCalls = <<>>

EditStart ==
    /\ editCount \in [EditorIds -> 0..MaxInitialCount]
    /\ initialEditCount = editCount
    /\ incrementCalls = <<>>

\* new Editor({id}).fetch({transacting}): the call is made and the row is
\* asked for.
CallIncrementEditorEditCountById ==
    /\ editCount # Undefined
    /\ Len(incrementCalls) < MaxCalls
    /\ \E id \in EditorIds : incrementCalls' = Append(incrementCalls, IncrementCall(id))
    /\ UNCHANGED <<editCount, initialEditCount>>
    /\ UNCHANGED exceptEdit

\* The database reads the row: the model holds the stored count.
FetchCompletes ==
    /\ \E c \in DOMAIN incrementCalls :
           /\ incrementCalls[c].pc = "fetching"
           /\ incrementCalls' =
                  [incrementCalls EXCEPT ![c].pc = "fetched",
                                         ![c].editCount = editCount[incrementCalls[c].id]]
    /\ UNCHANGED <<editCount, initialEditCount>>
    /\ UNCHANGED exceptEdit

\* The then callback: editor.incrementEditCount(), then editor.save is
\* asked for.
IncrementAndSave ==
    /\ \E c \in DOMAIN incrementCalls :
           /\ incrementCalls[c].pc = "fetched"
           /\ incrementCalls' =
                  [incrementCalls EXCEPT ![c].pc = "saving",
                                         ![c].editCount = incrementCalls[c].editCount + 1]
    /\ UNCHANGED <<editCount, initialEditCount>>
    /\ UNCHANGED exceptEdit

\* The database writes the model's count to the row; the call's promise
\* resolves.
SaveCompletes ==
    /\ \E c \in DOMAIN incrementCalls :
           /\ incrementCalls[c].pc = "saving"
           /\ editCount' =
                  [editCount EXCEPT ![incrementCalls[c].id] = incrementCalls[c].editCount]
           /\ incrementCalls' = [incrementCalls EXCEPT ![c].pc = "done"]
    /\ UNCHANGED initialEditCount
    /\ UNCHANGED exceptEdit

NextEdit ==
    \/ CallIncrementEditorEditCountById
    \/ FetchCompletes
    \/ IncrementAndSave
    \/ SaveCompletes

\* C6: once the n calls made for an editor have all completed, however their
\* steps interleaved, the editor's stored edit count is its initial value
\* plus n, and no other editor's count has changed.
C6_EveryCallAddsOne ==
    (/\ incrementCalls # <<>>
     /\ \A c \in DOMAIN incrementCalls : incrementCalls[c].pc = "done") =>
        \A e \in EditorIds :
            editCount[e] =
                initialEditCount[e]
                + Cardinality({ c \in DOMAIN incrementCalls : incrementCalls[c].id = e })

\* ------------------------------------------------------------------------
\* Table truncation

MaxTables == 3

TableNames == {"editor", "revision", "note"}

\* Bookshelf.knex.raw(`TRUNCATE ${table} CASCADE`)
TruncateStatement(table) == "TRUNCATE " \o table \o " CASCADE"

TruncateIdle ==
    /\ tables = <<>>
    /\ issued = <<>>
    /\ inFlight = {}
    /\ succeeded = {}
    /\ failed = {}
    /\ truncatePromise = "idle"

TruncateStart ==
    /\ tables \in SeqsUpTo(TableNames, MaxTables)
    /\ issued = <<>>
    /\ inFlight = {}
    /\ succeeded = {}
    /\ failed = {}
    /\ truncatePromise = "none"

\* truncateTables(Bookshelf, tables): Promise.each over the list; the
\* promise it returns is pending when the call returns, whatever the list.
CallTruncateTables ==
    /\ truncatePromise = "none"
    /\ truncatePromise' = "pending"
    /\ UNCHANGED <<tables, issued, inFlight, succeeded, failed>>
    /\ UNCHANGED exceptTruncate

\* The iterator is called on every table without waiting for the statement
\* before (what Promise.map would do).
IssueStatementConcurrently ==
    /\ truncatePromise = "pending"
    /\ Len(issued) < Len(tables)
    /\ issued' = Append(issued, TruncateStatement(tables[Len(issued) + 1]))
    /\ inFlight' = inFlight \cup {Len(issued) + 1}
    /\ UNCHANGED <<tables, succeeded, failed, truncatePromise>>
    /\ UNCHANGED exceptTruncate

\* Promise.each calls the iterator on the next table once the promise of
\* the table before is fulfilled.
IssueStatement ==
    /\ truncatePromise = "pending"
    /\ inFlight = {}
    /\ failed = {}
    /\ Len(issued) < Len(tables)
    /\ issued' = Append(issued, TruncateStatement(tables[Len(issued) + 1]))
    /\ inFlight' = inFlight \cup {Len(issued) + 1}
    /\ UNCHANGED <<tables, succeeded, failed, truncatePromise>>
    /\ UNCHANGED exceptTruncate

\* The promise of a statement is fulfilled.
StatementSucceeds ==
    /\ \E i \in inFlight :
           /\ inFlight' = inFlight \ {i}
           /\ succeeded' = succeeded \cup {i}
    /\ UNCHANGED <<tables, issued, failed, truncatePromise>>
    /\ UNCHANGED exceptTruncate

\* The promise of a statement is rejected.
StatementFails ==
    /\ \E i \in inFlight :
           /\ inFlight' = inFlight \ {i}
           /\ failed' = failed \cup {i}
    /\ UNCHANGED <<tables, issued, succeeded, truncatePromise>>
    /\ UNCHANGED exceptTruncate

\* Back in the event loop with no table left to iterate (none at all, over
\* an empty list): the returned promise is fulfilled.
FulfilPromise ==
    /\ truncatePromise = "pending"
    /\ failed = {}
    /\ succeeded = DOMAIN tables
    /\ truncatePromise' = "fulfilled"
    /\ UNCHANGED <<tables, issued, inFlight, succeeded, failed>>
    /\ UNCHANGED exceptTruncate

\* Back in the event loop after a statement failed: the returned promise is
\* rejected.
RejectPromise ==
    /\ truncatePromise = "pending"
    /\ failed # {}
    /\ truncatePromise' = "rejected"
    /\ UNCHANGED <<tables, issued, inFlight, succeeded, failed>>
    /\ UNCHANGED exceptTruncate

NextTruncate ==
    \/ CallTruncateTables
    \/ IssueStatement
    \/ StatementSucceeds
    \/ StatementFails
    \/ FulfilPromise
    \/ RejectPromise

\* What C7 says of every state: one TRUNCATE ... CASCADE statement per
\* table, in list order, one at a time, each after the one before has
\* completed; the promise fulfilled only after the last table's statement
\* has completed; after a failed statement the promise never fulfilled and
\* no statement issued for a later table.
TruncateInOrder ==
    /\ Len(issued) <= Len(tables)
    /\ \A i \in DOMAIN issued : issued[i] = "TRUNCATE " \o tables[i] \o " CASCADE"
    /\ Cardinality(inFlight) <= 1
    /\ \A i \in DOMAIN issued : i > 1 => (i - 1) \in succeeded
    /\ truncatePromise = "fulfilled" =>
           /\ succeeded = DOMAIN tables
           /\ Len(issued) = Len(tables)
           /\ inFlight = {}
    /\ \A i \in failed :
           /\ truncatePromise \in {"pending", "rejected"}
           /\ Len(issued) = i

\* C7: truncateTables issues one TRUNCATE ... CASCADE statement per table, in
\* list order and one at a time, each after the one before has completed;
\* the promise is fulfilled only after the last table's statement has
\* completed; a failed statement leads to the promise being rejected, and no
\* statement is issued for a later table.
C7_TruncateInOrder ==
    /\ []TruncateInOrder
    /\ (failed # {}) ~> (truncatePromise = "rejected")

\* A statement failed after another had completed, with a table left.
C7_Witness ==
    /\ Len(tables) = 3
    /\ succeeded = {1}
    /\ failed = {2}
    /\ truncatePromise = "rejected"

\* ------------------------------------------------------------------------
\* Name-section actions of the entity editor

MaxRuns == 2

UPDATE_NAME_FIELD == "UPDATE_NAME_FIELD"

UPDATE_WARN_IF_EXISTS == "UPDATE_WARN_IF_EXISTS"

Bool(b) == [t |-> "boolean", v |-> IF b THEN "true" ELSE "false"]

\* The names typed, and the entity type of the editor.
TypedNames == {"a", "b"}

NameEntityType == "creator"

NoAction == [type |-> "none"]

\* The action handleNameChange dispatches first.
NameFieldAction(newName) ==
    [meta |-> [debounce |-> "keystroke"], payload |-> Str(newName), type |-> UPDATE_NAME_FIELD]

\* The warning dispatched with no debounce tag.
WarnIfExistsActionUntagged(resText) ==
    [payload |-> Bool(resText = "true"), type |-> UPDATE_WARN_IF_EXISTS]

\* The action handleNameChange dispatches when the request succeeds.
WarnIfExistsAction(resText) ==
    [meta |-> [debounce |-> "keystroke"], payload |-> Bool(resText = "true"),
     type |-> UPDATE_WARN_IF_EXISTS]

\* GET /search/exists?collection=..&q=..: the text of the response.
SearchExists(index, q) == IF q \in index THEN "true" ELSE "false"

\* The keys the debounce middleware is configured with.
DebounceKeys == {"keystroke"}

\* action.meta.debounce, or "" when the action has none.
DebounceTag(action) ==
    IF "meta" \in DOMAIN action /\ "debounce" \in DOMAIN action.meta
    THEN action.meta.debounce ELSE ""

\* Whether the middleware holds the action back.
IsDebounced(action) == DebounceTag(action) \in DebounceKeys

\* dispatch(action), logged at position at: a tagged action replaces the one
\* the debouncer holds under its key; any other action reaches the reducer
\* at once.
DispatchedTo(held, action, at) ==
    IF IsDebounced(action) THEN [action |-> action, at |-> at] ELSE held

ReducedAtOnce(action, at) ==
    IF IsDebounced(action) THEN <<>>
    ELSE <<[ev |-> "reduce", action |-> action, at |-> at]>>

ThunkIdle ==
    /\ searchIndex = {}
    /\ thunkRuns = <<>>
    /\ debounced = NoAction
    /\ eventLog = <<[ev |-> "idle"]>>

ThunkStart ==
    /\ searchIndex \in SUBSET TypedNames
    /\ thunkRuns = <<>>
    /\ debounced = NoAction
    /\ eventLog = <<>>

\* The thunk of handleNameChange(newName, entityType) runs: the name action
\* is dispatched, then the request is sent.
HandleNameChange ==
    /\ eventLog # <<[ev |-> "idle"]>>
    /\ Len(thunkRuns) < MaxRuns
    /\ \E newName \in TypedNames :
           LET r == Len(thunkRuns) + 1
               at == Len(eventLog) + 1
               action == NameFieldAction(newName)
           IN  /\ thunkRuns' =
                      Append(thunkRuns, [name |-> newName, request |-> "pending", text |-> ""])
               /\ debounced' = DispatchedTo(debounced, action, at)
               /\ eventLog' =
                      eventLog
                      \o <<[ev |-> "dispatch", run |-> r, action |-> action]>>
                      \o ReducedAtOnce(action, at)
                      \o <<[ev |-> "request", run |-> r,
                            query |-> [collection |-> NameEntityType, q |-> newName]]>>
    /\ UNCHANGED searchIndex
    /\ UNCHANGED exceptThunk

\* The response of a run arrives: the promise of its request is fulfilled
\* with it, and the then callback is queued.
RequestSucceeds ==
    /\ \E r \in DOMAIN thunkRuns :
           /\ thunkRuns[r].request = "pending"
           /\ thunkRuns' =
                  [thunkRuns EXCEPT ![r].request = "ok",
                                    ![r].text = SearchExists(searchIndex, thunkRuns[r].name)]
           /\ eventLog' = Append(eventLog, [ev |-> "response", run |-> r, ok |-> "true"])
    /\ UNCHANGED <<searchIndex, debounced>>
    /\ UNCHANGED exceptThunk

\* The then callback of a run runs: the warning action is dispatched.
DispatchWarnIfExists ==
    /\ \E r \in DOMAIN thunkRuns :
           /\ thunkRuns[r].request = "ok"
           /\ LET at == Len(eventLog) + 1
                  action == WarnIfExistsAction(thunkRuns[r].text)
              IN  /\ thunkRuns' = [thunkRuns EXCEPT ![r].request = "warned"]
                  /\ debounced' = DispatchedTo(debounced, action, at)
                  /\ eventLog' =
                         eventLog
                         \o <<[ev |-> "dispatch", run |-> r, action |-> action]>>
                         \o ReducedAtOnce(action, at)
    /\ UNCHANGED searchIndex
    /\ UNCHANGED exceptThunk

\* The request of a run fails: the catch handler returns the error.
RequestFails ==
    /\ \E r \in DOMAIN thunkRuns :
           /\ thunkRuns[r].request = "pending"
           /\ thunkRuns' = [thunkRuns EXCEPT ![r].request = "failed"]
           /\ eventLog' = Append(eventLog, [ev |-> "response", run |-> r, ok |-> "false"])
    /\ UNCHANGED <<searchIndex, debounced>>
    /\ UNCHANGED exceptThunk

\* The action the debouncer holds takes effect: it reaches the reducer. Of
\* the two actions of a run only the one dispatched later takes effect, so
\* the debouncer does not release an action while the run that dispatched it
\* has its later action still to dispatch.
HeldActionTakesEffect ==
    /\ debounced # NoAction
    /\ thunkRuns[eventLog[debounced.at].run].request \in {"warned", "failed"}
    /\ eventLog' =
           Append(eventLog, [ev |-> "reduce", action |-> debounced.action, at |-> debounced.at])
    /\ debounced' = NoAction
    /\ UNCHANGED <<searchIndex, thunkRuns>>
    /\ UNCHANGED exceptThunk

NextThunk ==
    \/ HandleNameChange
    \/ RequestSucceeds
    \/ DispatchWarnIfExists
    \/ RequestFails
    \/ HeldActionTakesEffect

\* Where in the log run r dispatched an action of the type, where it sent
\* its request, and where dispatched actions reached the reducer.
DispatchesOf(r, type) ==
    { i \in DOMAIN eventLog :
        /\ eventLog[i].ev = "dispatch"
        /\ eventLog[i].run = r
        /\ eventLog[i].action.type = type }

EventsOf(r, ev) ==
    { i \in DOMAIN eventLog : eventLog[i].ev = ev /\ eventLog[i].run = r }

ReducesOf(at) ==
    { i \in DOMAIN eventLog : eventLog[i].ev = "reduce" /\ eventLog[i].at = at }

\* In every run: the name action is dispatched before the request is sent,
\* the warning action only after the request succeeded, both tagged
\* 'keystroke'.
ThunkOrder ==
    \A r \in DOMAIN thunkRuns :
        /\ \E n \in DispatchesOf(r, UPDATE_NAME_FIELD) :
               /\ DispatchesOf(r, UPDATE_NAME_FIELD) = {n}
               /\ \A q \in EventsOf(r, "request") : n < q
               /\ DebounceTag(eventLog[n].action) = "keystroke"
        /\ Cardinality(EventsOf(r, "request")) = 1
        /\ \A w \in DispatchesOf(r, UPDATE_WARN_IF_EXISTS) :
               /\ thunkRuns[r].request = "warned"
               /\ \E p \in EventsOf(r, "response") : eventLog[p].ok = "true" /\ p < w
               /\ DebounceTag(eventLog[w].action) = "keystroke"

\* Where in the log an action was dispatched after position at.
DispatchesAfter(at) ==
    { i \in DOMAIN eventLog : eventLog[i].ev = "dispatch" /\ i > at }

LastDispatch(type) ==
    LET at == { i \in DOMAIN eventLog :
                  eventLog[i].ev = "dispatch" /\ eventLog[i].action.type = type }
    IN  eventLog[CHOOSE i \in at : \A j \in at : j <= i].action.payload

\* C9: once every request has completed successfully (and its then callback
\* has run), the warning dispatched last is the existence result for the
\* name dispatched last; a failed request dispatches no warning.
C9_WarningIsForLatestName ==
    /\ (/\ thunkRuns # <<>>
        /\ \A r \in DOMAIN thunkRuns : thunkRuns[r].request = "warned") =>
           LastDispatch(UPDATE_WARN_IF_EXISTS) =
               Bool(LastDispatch(UPDATE_NAME_FIELD).v \in searchIndex)
    /\ \A r \in DOMAIN thunkRuns :
           thunkRuns[r].request = "failed" => DispatchesOf(r, UPDATE_WARN_IF_EXISTS) = {}

\* ------------------------------------------------------------------------
\* Specifications

InitLookup ==
    /\ LookupStart /\ FilterIdle /\ BBIDIdle /\ TitleIdle
    /\ EditIdle /\ TruncateIdle /\ ThunkIdle

InitFilter ==
    /\ LookupIdle /\ FilterStart /\ BBIDIdle /\ TitleIdle
    /\ EditIdle /\ TruncateIdle /\ ThunkIdle

InitBBID ==
    /\ LookupIdle /\ FilterIdle /\ BBIDStart /\ TitleIdle
    /\ EditIdle /\ TruncateIdle /\ ThunkIdle

InitTitle ==
    /\ LookupIdle /\ FilterIdle /\ BBIDIdle /\ TitleStart
    /\ EditIdle /\ TruncateIdle /\ ThunkIdle

InitEdit ==
    /\ LookupIdle /\ FilterIdle /\ BBIDIdle /\ TitleIdle
    /\ EditStart /\ TruncateIdle /\ ThunkIdle

InitTruncate ==
    /\ LookupIdle /\ FilterIdle /\ BBIDIdle /\ TitleIdle
    /\ EditIdle /\ TruncateStart /\ ThunkIdle

InitThunk ==
    /\ LookupIdle /\ FilterIdle /\ BBIDIdle /\ TitleIdle
    /\ EditIdle /\ TruncateIdle /\ ThunkStart

SpecLookup == InitLookup /\ [][NextLookup]_vars

SpecFilter == InitFilter /\ [][NextFilter]_vars

SpecBBID == InitBBID /\ [][NextBBID]_vars

SpecTitle == InitTitle /\ [][NextTitle]_vars

SpecEdit == InitEdit /\ [][NextEdit]_vars

SpecTruncate == InitTruncate /\ [][NextTruncate]_vars

\* The event loop runs the callbacks queued on it: a promise that can be
\* settled is settled.
SpecTruncateLive ==
    SpecTruncate /\ WF_vars(FulfilPromise) /\ WF_vars(RejectPromise)

SpecThunk == InitThunk /\ [][NextThunk]_vars

Init ==
    \/ InitLookup
    \/ InitFilter
    \/ InitBBID
    \/ InitTitle
    \/ InitEdit
    \/ InitTruncate
    \/ InitThunk

Next ==
    \/ NextLookup
    \/ NextFilter
    \/ NextBBID
    \/ NextTitle
    \/ NextEdit
    \/ NextTruncate
    \/ NextThunk

Spec == Init /\ [][Next]_vars

====
